---- MODULE Spec2Model ----
(***************************************************************************)
(* A model of the TBAS virtual machine of tbas/tbas.py: the Context (one   *)
(* program run: memory, I/O buffer, pointers, loop stack, Frame history),  *)
(* its operator and I/O-mode handlers, and the Interpreter that creates a  *)
(* Context per run, drives it and counts the successful runs.              *)
(*                                                                         *)
(* Python values are represented as follows.                               *)
(*   - a str is the sequence of its code points; a program is the sequence *)
(*     of its one-character strings;                                       *)
(*   - None is the empty tuple <<>> and an optional value v is <<v>>;      *)
(*   - a memory cell holds a Python int, or a bytes object of n zero bytes *)
(*     (what bytes(n) builds), written MkBytes(n);                         *)
(*   - an exception is the name of its class.                              *)
(***************************************************************************)
EXTENDS Integers, Sequences, FiniteSets, TLC

VARIABLES
    interpreter,    \* the Interpreter: its four port callbacks and run_counter
    ctx,            \* ctx[r]: the Context of run r
    pc,             \* pc[r]: where the call Interpreter.run of run r stands
    logged,         \* logged[r]: the exception _log.error recorded for run r
    port_io         \* port_io[r]: what run r wrote to and read from the ports

vars == <<interpreter, ctx, pc, logged, port_io>>

-----------------------------------------------------------------------------
(* Program constants *)

BYTE_MAX == 255
WORKING_MEMORY_BYTES == 256

(* Bounds of the model *)

\* every program over Alphabet of at most this length is run
MaxLen == 2
\* a run is followed for at most MaxPasses * Len(program) + MaxExtraSteps
\* instructions
MaxPasses == 5
MaxExtraSteps == 13
\* the programs k "+" then "[?-]" are run for k up to this, and for k = BYTE_MAX
MaxCount == 4
\* runs are dispatched while run_counter is below this
MaxRuns == 2
\* the arithmetic modes are run on cell values and buffer values up to this,
\* and on 255
MaxOperand == 2

-----------------------------------------------------------------------------
(* Python values *)

None == <<>>

\* bytes(n): a bytes object of n zero bytes. It is kept apart from every int a
\* cell can hold (ints below -BytesBase need a program longer than BytesBase).
BytesBase == 1000 * 1000
MkBytes(n) == 0 - BytesBase - n
IsBytes(v) == v <= 0 - BytesBase
BytesLen(v) == 0 - BytesBase - v

\* bool(v)
Truthy(v) == IF IsBytes(v) THEN BytesLen(v) > 0 ELSE v # 0

Max(a, b) == IF a >= b THEN a ELSE b
Min(a, b) == IF a <= b THEN a ELSE b

\* seq[i] of a Python sequence of length n: a negative i counts from the end
PyIndexOK(i, n) == 0 - n <= i /\ i < n
PyIndex(i, n) == IF i < 0 THEN i + n ELSE i

Rep(x, k) == [i \in 1..k |-> x]

RECURSIVE DecDigits(_)
DecDigits(n) == IF n < 10 THEN <<48 + n>> ELSE DecDigits(n \div 10) \o <<48 + (n % 10)>>

RECURSIVE Flatten(_)
Flatten(ss) == IF ss = <<>> THEN <<>> ELSE Head(ss) \o Flatten(Tail(ss))

\* str(v): decimal text of an int, b'\x00...' of a bytes object
Str(v) ==
    IF IsBytes(v) THEN <<98, 39>> \o Flatten(Rep(<<92, 120, 48, 48>>, BytesLen(v))) \o <<39>>
    ELSE IF v < 0 THEN <<45>> \o DecDigits(0 - v)
    ELSE DecDigits(v)

\* s.isdigit() for the ASCII text the ports supply
IsDigit(s) == s # <<>> /\ \A i \in 1..Len(s) : s[i] \in 48..57

\* int(s) of one decimal digit
IntOfDigit(s) == s[1] - 48

\* a & b, a | b, a ^ b on Python ints (two's complement of unbounded width)
RECURSIVE BitAnd(_, _)
BitAnd(a, b) ==
    IF a = 0 \/ b = 0 THEN 0
    ELSE IF a = -1 THEN b
    ELSE IF b = -1 THEN a
    ELSE (a % 2) * (b % 2) + 2 * BitAnd(a \div 2, b \div 2)

RECURSIVE BitOr(_, _)
BitOr(a, b) ==
    IF a = 0 THEN b
    ELSE IF b = 0 THEN a
    ELSE IF a = -1 \/ b = -1 THEN -1
    ELSE Max(a % 2, b % 2) + 2 * BitOr(a \div 2, b \div 2)

RECURSIVE BitXor(_, _)
BitXor(a, b) ==
    IF a = 0 THEN b
    ELSE IF b = 0 THEN a
    ELSE IF a = -1 THEN 0 - b - 1
    ELSE IF b = -1 THEN 0 - a - 1
    ELSE ((a + b) % 2) + 2 * BitXor(a \div 2, b \div 2)

\* ord(ch) of a program character, as source.encode() yields it
Ord(ch) ==
    CASE ch = "+" -> 43
      [] ch = "-" -> 45
      [] ch = "<" -> 60
      [] ch = ">" -> 62
      [] ch = "[" -> 91
      [] ch = "]" -> 93
      [] ch = "=" -> 61
      [] ch = "?" -> 63
      [] OTHER -> 120

-----------------------------------------------------------------------------
(* Context: the dispatch tables *)

imodes == 0..27

operators == {">", "<", "+", "-", "[", "]", "=", "?"}

tasks == {0, 1, 2, 3, 4, 5, 6, 8, 9}

n_instructions(c) == Len(c.source)

\* Context.reset: the fields of a Context
reset(program) ==
    [ source       |-> program,
      stack        |-> <<>>,
      mcell        |-> [i \in 0..(WORKING_MEMORY_BYTES - 1) |-> 0],
      mptr         |-> 0,
      icell        |-> <<>>,
      imode        |-> 0,
      in_dead_loop |-> 0,
      loop_ref     |-> <<>>,
      eptr         |-> 0,
      operator     |-> "None",
      goto         |-> None ]

\* The attributes of a Context that hold a mutable object (a list or a
\* bytearray), which the handlers change in place; the others hold ints, strs
\* or None.
MutableKeys == {"mcell", "icell", "loop_ref"}

\* mutant of Frame: the attributes are taken as they are, without copy()
FrameWithoutCopy(c, noop, msg) ==
    [ noop         |-> noop,
      msg          |-> msg,
      mcell        |-> c.mcell,
      mptr         |-> c.mptr,
      icell        |-> c.icell,
      imode        |-> c.imode,
      in_dead_loop |-> c.in_dead_loop,
      loop_ref     |-> c.loop_ref,
      eptr         |-> c.eptr,
      operator     |-> c.operator,
      goto         |-> c.goto,
      shares       |-> MutableKeys ]

\* Frame(context, noop, msg): copy() of each of the Context's keys. shares is
\* the set of the attributes whose object the Frame has in common with the
\* Context: none, copy() of a list or of a bytearray being a new object.
Frame(c, noop, msg) ==
    [ noop         |-> noop,
      msg          |-> msg,
      mcell        |-> c.mcell,
      mptr         |-> c.mptr,
      icell        |-> c.icell,
      imode        |-> c.imode,
      in_dead_loop |-> c.in_dead_loop,
      loop_ref     |-> c.loop_ref,
      eptr         |-> c.eptr,
      operator     |-> c.operator,
      goto         |-> c.goto,
      shares       |-> {} ]

\* A change in place of an object of the Context shows in every Frame that has
\* the object in common with it.
Seen(frame, c) ==
    IF frame.shares = {} THEN frame
    ELSE [ frame EXCEPT
             !.mcell    = IF "mcell" \in frame.shares THEN c.mcell ELSE @,
             !.icell    = IF "icell" \in frame.shares THEN c.icell ELSE @,
             !.loop_ref = IF "loop_ref" \in frame.shares THEN c.loop_ref ELSE @ ]

InPlace(stack, c) == [i \in 1..Len(stack) |-> Seen(stack[i], c)]

\* self.icell = <a new bytearray>: the Frames that had the old one keep it
Rebind(c, icell) ==
    [ c EXCEPT !.icell = icell,
               !.stack = [ i \in 1..Len(c.stack) |->
                             [ Seen(c.stack[i], c) EXCEPT !.shares = @ \ {"icell"} ] ] ]

\* What a handler did: the Context as it left it, what it returned (None or
\* <<Frame>>), the exception it raised ("" when none), and its port traffic.
NoIO == [console_write |-> <<>>, modem_write |-> <<>>, console_read |-> <<>>, modem_read |-> <<>>]
Returns(c, ret) == [c |-> c, ret |-> ret, exc |-> "", io |-> NoIO]
Raises(c, e) == [c |-> c, ret |-> None, exc |-> e, io |-> NoIO]
ReturnsFrame(c, noop, msg) == Returns(c, <<Frame(c, noop, msg)>>)

\* the current cell
mvalue(c) == c.mcell[c.mptr]
SetCell(c, v) == [c EXCEPT !.mcell[c.mptr] = v]

-----------------------------------------------------------------------------
(* Context: the eight operators *)

_advance_mptr(c) ==
    IF c.in_dead_loop # 0 THEN ReturnsFrame(c, TRUE, "in dead loop")
    ELSE IF c.mptr = WORKING_MEMORY_BYTES THEN ReturnsFrame(c, TRUE, "mptr at extent")
    ELSE ReturnsFrame([c EXCEPT !.mptr = c.mptr + 1], FALSE, "")

_retreat_mptr(c) ==
    IF c.in_dead_loop # 0 THEN ReturnsFrame(c, TRUE, "in dead loop")
    ELSE IF c.mptr = 0 THEN ReturnsFrame(c, TRUE, "mptr at zero")
    ELSE ReturnsFrame([c EXCEPT !.mptr = c.mptr - 1], FALSE, "")

\* mutant of _increment_mcell: the dead loop is not looked at
_increment_mcell_in_dead_loop(c) ==
    IF mvalue(c) = BYTE_MAX THEN ReturnsFrame(c, TRUE, "mcell[] is max")
    ELSE IF IsBytes(mvalue(c)) THEN Raises(c, "TypeError")
    ELSE ReturnsFrame(SetCell(c, mvalue(c) + 1), FALSE, "")

_increment_mcell(c) ==
    IF c.in_dead_loop # 0 THEN ReturnsFrame(c, TRUE, "in dead loop")
    ELSE IF mvalue(c) = BYTE_MAX THEN ReturnsFrame(c, TRUE, "mcell[] is max")
    ELSE IF IsBytes(mvalue(c)) THEN Raises(c, "TypeError")
    ELSE ReturnsFrame(SetCell(c, mvalue(c) + 1), FALSE, "")

_decrement_mcell(c) ==
    IF c.in_dead_loop # 0 THEN ReturnsFrame(c, TRUE, "in dead loop")
    ELSE IF mvalue(c) = 0 THEN ReturnsFrame(c, TRUE, "mcell[] is 0")
    ELSE IF IsBytes(mvalue(c)) THEN Raises(c, "TypeError")
    ELSE ReturnsFrame(SetCell(c, mvalue(c) - 1), FALSE, "")

\* mutant of _begin_loop: a "[" in a dead loop is counted, not pushed
_begin_loop_counting_dead_loops(c) ==
    IF c.in_dead_loop # 0
    THEN ReturnsFrame([c EXCEPT !.in_dead_loop = c.in_dead_loop + 1],
                      TRUE, "begin loop in dead loop")
    ELSE LET c1 == [c EXCEPT !.loop_ref = Append(c.loop_ref, c.eptr)]
         IN  IF mvalue(c1) = 0
             THEN ReturnsFrame([c1 EXCEPT !.in_dead_loop = 1], TRUE, "begin loop in dead loop")
             ELSE ReturnsFrame(c1, FALSE, "")

_begin_loop(c) ==
    LET c1 == [c EXCEPT !.loop_ref = Append(c.loop_ref, c.eptr)]
    IN  IF c1.in_dead_loop # 0 \/ mvalue(c1) = 0
        THEN ReturnsFrame([c1 EXCEPT !.in_dead_loop = c1.in_dead_loop + 1],
                          TRUE, "begin loop in dead loop")
        ELSE ReturnsFrame(c1, FALSE, "")

\* mutant of _end_loop: a "]" without matching "[" is passed over
_end_loop_unchecked(c) ==
    IF Len(c.loop_ref) = 0 THEN ReturnsFrame(c, TRUE, "] without matching [")
    ELSE
        LET goto_instruction == c.loop_ref[Len(c.loop_ref)]
            c1 == [c EXCEPT !.loop_ref = SubSeq(c.loop_ref, 1, Len(c.loop_ref) - 1)]
        IN  IF c1.in_dead_loop # 0
            THEN ReturnsFrame([c1 EXCEPT !.in_dead_loop = c1.in_dead_loop - 1],
                              TRUE, "ended dead loop")
            ELSE ReturnsFrame([c1 EXCEPT !.goto = <<goto_instruction>>], FALSE, "")

\* mutant of _end_loop: a "]" of a live loop does not jump back
_end_loop_without_jump(c) ==
    IF Len(c.loop_ref) = 0 THEN Raises(c, "UserWarning")
    ELSE
        LET c1 == [c EXCEPT !.loop_ref = SubSeq(c.loop_ref, 1, Len(c.loop_ref) - 1)]
        IN  IF c1.in_dead_loop # 0
            THEN ReturnsFrame([c1 EXCEPT !.in_dead_loop = c1.in_dead_loop - 1],
                              TRUE, "ended dead loop")
            ELSE ReturnsFrame(c1, FALSE, "")

\* mutant of _end_loop: every "]" counts a dead loop down
_end_loop_always_decrements(c) ==
    IF Len(c.loop_ref) = 0 THEN Raises(c, "UserWarning")
    ELSE
        LET c1 == [c EXCEPT !.loop_ref = SubSeq(c.loop_ref, 1, Len(c.loop_ref) - 1)]
        IN  ReturnsFrame([c1 EXCEPT !.in_dead_loop = c1.in_dead_loop - 1],
                         TRUE, "ended dead loop")

_end_loop(c) ==
    IF Len(c.loop_ref) = 0 THEN Raises(c, "UserWarning")
    ELSE
        LET goto_instruction == c.loop_ref[Len(c.loop_ref)]
            c1 == [c EXCEPT !.loop_ref = SubSeq(c.loop_ref, 1, Len(c.loop_ref) - 1)]
        IN  IF c1.in_dead_loop # 0
            THEN ReturnsFrame([c1 EXCEPT !.in_dead_loop = c1.in_dead_loop - 1],
                              TRUE, "ended dead loop")
            ELSE ReturnsFrame([c1 EXCEPT !.goto = <<goto_instruction>>], FALSE, "")

_set_iomode(c) ==
    IF c.in_dead_loop # 0 THEN ReturnsFrame(c, TRUE, "in dead loop")
    ELSE ReturnsFrame([c EXCEPT !.imode = mvalue(c)], FALSE, "")

-----------------------------------------------------------------------------
(* Context: the I/O modes. interp is the Interpreter; ivalue is the text the  *)
(* port hands to a read of one character ("" at end of input).               *)

\* chr(v)
ChrRaises(v) ==
    IF IsBytes(v) THEN "TypeError"
    ELSE IF v < 0 \/ v > 1114111 THEN "ValueError"
    ELSE ""

_console_decimal_write(c, interp) ==
    IF interp.console_write
    THEN [Returns(c, None) EXCEPT !.io.console_write = <<Str(mvalue(c))>>]
    ELSE Returns(c, None)

\* mutant of _console_decimal_read: a digit is stored as its character code
_console_decimal_read_as_ascii(c, interp, ivalue) ==
    IF interp.console_read
    THEN LET r == IF Len(ivalue) # 1 THEN Raises(c, "TypeError")
                  ELSE Returns(SetCell(c, ivalue[1] % (BYTE_MAX + 1)), None)
         IN  [r EXCEPT !.io.console_read = <<ivalue>>]
    ELSE Returns(c, None)

_console_decimal_read(c, interp, ivalue) ==
    IF interp.console_read
    THEN LET r == IF IsDigit(ivalue)
                  THEN Returns(SetCell(c, IntOfDigit(ivalue) % (BYTE_MAX + 1)), None)
                  ELSE IF Len(ivalue) # 1 THEN Raises(c, "TypeError")
                  ELSE Returns(SetCell(c, ivalue[1] % (BYTE_MAX + 1)), None)
         IN  [r EXCEPT !.io.console_read = <<ivalue>>]
    ELSE Returns(c, None)

\* mutant of _console_ascii_write: the cell is written as decimal text
_console_ascii_write_as_decimal(c, interp) ==
    IF interp.console_write
    THEN [Returns(c, None) EXCEPT !.io.console_write = <<Str(mvalue(c))>>]
    ELSE Returns(c, None)

_console_ascii_write(c, interp) ==
    IF interp.console_write
    THEN IF ChrRaises(mvalue(c)) # "" THEN Raises(c, ChrRaises(mvalue(c)))
         ELSE [Returns(c, None) EXCEPT !.io.console_write = << <<mvalue(c)>> >>]
    ELSE Returns(c, None)

_console_ascii_read(c, interp, ivalue) ==
    IF interp.console_read
    THEN LET r == IF Len(ivalue) # 1 THEN Raises(c, "TypeError")
                  ELSE Returns(SetCell(c, ivalue[1] % (BYTE_MAX + 1)), None)
         IN  [r EXCEPT !.io.console_read = <<ivalue>>]
    ELSE Returns(c, None)

_modem_ascii_write(c, interp) ==
    IF interp.modem_write
    THEN IF ChrRaises(mvalue(c)) # "" THEN Raises(c, ChrRaises(mvalue(c)))
         ELSE [Returns(c, None) EXCEPT !.io.modem_write = << <<mvalue(c)>> >>]
    ELSE Returns(c, None)

\* a text that is not all digits is replaced by its ord(), an int, and the
\* ord() of the assignment then raises; ord("") raises as well
_modem_ascii_read(c, interp, ivalue) ==
    IF interp.modem_read
    THEN LET r == IF ~IsDigit(ivalue) THEN Raises(c, "TypeError")
                  ELSE IF Len(ivalue) # 1 THEN Raises(c, "TypeError")
                  ELSE Returns(SetCell(c, ivalue[1] % (BYTE_MAX + 1)), None)
         IN  [r EXCEPT !.io.modem_read = <<ivalue>>]
    ELSE Returns(c, None)

_buffer_program(c) ==
    LET c1 == Rebind(c, [i \in 1..Len(c.source) |-> Ord(c.source[i])])
    IN  ReturnsFrame(c1, FALSE, "")

\* bytearray.append(v)
_buffer_enqueue(c) ==
    IF IsBytes(mvalue(c)) THEN Raises(c, "TypeError")
    ELSE IF mvalue(c) < 0 \/ mvalue(c) > 255 THEN Raises(c, "ValueError")
    ELSE Returns([c EXCEPT !.icell = Append(c.icell, mvalue(c))], None)

_buffer_dequeue_filo(c) ==
    IF Len(c.icell) # 0
    THEN LET bvalue == c.icell[Len(c.icell)]
             c1 == [c EXCEPT !.icell = SubSeq(c.icell, 1, Len(c.icell) - 1)]
         IN  Returns(SetCell(c1, bvalue), None)
    ELSE Returns(SetCell(c, 0), None)

\* _deque_fifo: the value it returns, and the Context it leaves
_deque_fifo_value(c) == IF Len(c.icell) # 0 THEN Head(c.icell) ELSE 0
_deque_fifo(c) == IF Len(c.icell) # 0 THEN [c EXCEPT !.icell = Tail(c.icell)] ELSE c

_buffer_dequeue_fifo(c) ==
    Returns(SetCell(_deque_fifo(c), _deque_fifo_value(c)), None)

_buffer_clear(c) == Returns(Rebind(c, <<>>), None)

_convert_lower_case(c) ==
    IF IsBytes(mvalue(c)) THEN Raises(c, "TypeError")
    ELSE IF mvalue(c) < 26 THEN Returns(SetCell(c, mvalue(c) + 97), None)
    ELSE Returns(c, None)

_convert_upper_case(c) ==
    IF IsBytes(mvalue(c)) THEN Raises(c, "TypeError")
    ELSE IF mvalue(c) < 26 THEN Returns(SetCell(c, mvalue(c) + 65), None)
    ELSE Returns(c, None)

_convert_decimal(c) ==
    IF IsBytes(mvalue(c)) THEN Raises(c, "TypeError")
    ELSE IF mvalue(c) < 10 THEN Returns(SetCell(c, mvalue(c) + 48), None)
    ELSE Returns(c, None)

_convert_tbas(c) ==
    LET mapping == <<43, 45, 60, 62, 91, 93, 61, 63>>
    IN  IF IsBytes(mvalue(c)) THEN Raises(c, "TypeError")
        ELSE IF mvalue(c) < 8
        THEN IF PyIndexOK(mvalue(c), 8)
             THEN Returns(SetCell(c, mapping[PyIndex(mvalue(c), 8) + 1]), None)
             ELSE Raises(c, "IndexError")
        ELSE Returns(c, None)

\* mutant of _alu_add: the sum saturates at BYTE_MAX
_alu_add_saturating(c) ==
    LET r == mvalue(c) + _deque_fifo_value(c)
    IN  IF IsBytes(mvalue(c)) THEN Raises(_deque_fifo(c), "TypeError")
        ELSE Returns(SetCell(_deque_fifo(c), Min(r, BYTE_MAX)), None)

\* The ALU modes evaluate the cell, then dequeue, then combine: a cell that
\* holds a bytes object makes the combination raise after the dequeue.
_alu_add(c) ==
    LET r == mvalue(c) + _deque_fifo_value(c)
    IN  IF IsBytes(mvalue(c)) THEN Raises(_deque_fifo(c), "TypeError")
        ELSE Returns(SetCell(_deque_fifo(c), Max(r, BYTE_MAX)), None)

_alu_sub(c) ==
    LET r == mvalue(c) + _deque_fifo_value(c)
    IN  IF IsBytes(mvalue(c)) THEN Raises(_deque_fifo(c), "TypeError")
        ELSE Returns(SetCell(_deque_fifo(c), Min(r, 0)), None)

\* bytes * int is a bytes object, and min() of it and BYTE_MAX raises
_alu_mul(c) ==
    LET r == mvalue(c) * _deque_fifo_value(c)
    IN  IF IsBytes(mvalue(c)) THEN Raises(_deque_fifo(c), "TypeError")
        ELSE Returns(SetCell(_deque_fifo(c), Min(r, BYTE_MAX)), None)

\* int(a / q), q > 0: the quotient rounded towards zero
TruncDiv(a, q) == IF a >= 0 THEN a \div q ELSE 0 - ((0 - a) \div q)

_alu_div(c) ==
    LET q == _deque_fifo_value(c)
        c1 == _deque_fifo(c)
    IN  IF q # 0
        THEN IF IsBytes(mvalue(c)) THEN Raises(c1, "TypeError")
             ELSE Returns(SetCell(c1, Min(TruncDiv(mvalue(c), q), 1)), None)
        ELSE Returns(c1, None)

\* bytes(n) of the combined int n: n zero bytes, ValueError for n < 0
StoreBytes(c, n) ==
    IF n < 0 THEN Raises(c, "ValueError") ELSE Returns(SetCell(c, MkBytes(n)), None)

_alu_and(c) ==
    IF IsBytes(mvalue(c)) THEN Raises(_deque_fifo(c), "TypeError")
    ELSE StoreBytes(_deque_fifo(c), BitAnd(mvalue(c), _deque_fifo_value(c)))

_alu_or(c) ==
    IF IsBytes(mvalue(c)) THEN Raises(_deque_fifo(c), "TypeError")
    ELSE StoreBytes(_deque_fifo(c), BitOr(mvalue(c), _deque_fifo_value(c)))

_alu_not(c) == Returns(SetCell(c, IF Truthy(mvalue(c)) THEN 0 ELSE 1), None)

_alu_xor(c) ==
    IF IsBytes(mvalue(c)) THEN Raises(_deque_fifo(c), "TypeError")
    ELSE StoreBytes(_deque_fifo(c), BitXor(mvalue(c), _deque_fifo_value(c)))

_get_mptr(c) == Returns(SetCell(c, c.mptr), None)

_get_eptr(c) == Returns(SetCell(c, c.eptr + 1), None)

_jump_left(c) ==
    IF IsBytes(mvalue(c)) THEN Raises(c, "TypeError")
    ELSE Returns([c EXCEPT !.goto = <<c.eptr - Max(n_instructions(c), mvalue(c))>>], None)

_jump_right(c) ==
    IF IsBytes(mvalue(c)) THEN Raises(c, "TypeError")
    ELSE Returns([c EXCEPT !.goto = <<c.eptr + Max(n_instructions(c), mvalue(c))>>], None)

-----------------------------------------------------------------------------
(* Context: the tasks of mode 7 *)

\* icell.decode('ascii') succeeds
DecodesAscii(icell) == \A i \in 1..Len(icell) : icell[i] < 128

\* decode the buffer, empty it, log: tbas, dialer, tonegn, tbascl, tbased
_exec_tbas(c) ==
    IF DecodesAscii(c.icell) THEN Returns(Rebind(c, <<>>), None)
    ELSE Raises(c, "UnicodeDecodeError")

\* buf is a str, which has no pop()
_exec_blinken(c) ==
    IF DecodesAscii(c.icell) THEN Raises(Rebind(c, <<>>), "AttributeError")
    ELSE Raises(c, "UnicodeDecodeError")

\* three pop(0), then the rest is decoded, then the buffer is emptied
_exec_scroller(c) ==
    IF Len(c.icell) < 3 THEN Raises([c EXCEPT !.icell = <<>>], "IndexError")
    ELSE LET rest == SubSeq(c.icell, 4, Len(c.icell))
         IN  IF DecodesAscii(rest) THEN Returns(Rebind([c EXCEPT !.icell = rest], <<>>), None)
             ELSE Raises([c EXCEPT !.icell = rest], "UnicodeDecodeError")

\* buf[0] of the decoded text, after the buffer is emptied
_exec_autodt(c) ==
    IF ~DecodesAscii(c.icell) THEN Raises(c, "UnicodeDecodeError")
    ELSE IF Len(c.icell) = 0 THEN Raises(Rebind(c, <<>>), "IndexError")
    ELSE Returns(Rebind(c, <<>>), None)

\* getattr(self, command)(): task 1 names _exec_config, which Context lacks
RunTask(c, t) ==
    CASE t = 1 -> Raises(c, "AttributeError")
      [] t = 3 -> _exec_blinken(c)
      [] t = 4 -> _exec_scroller(c)
      [] t = 8 -> _exec_autodt(c)
      [] OTHER -> _exec_tbas(c)

_execute_task(c) ==
    IF mvalue(c) \notin tasks THEN Raises(c, "UserWarning")
    ELSE LET r == RunTask(c, mvalue(c))
         IN  IF r.exc # "" THEN r ELSE ReturnsFrame(r.c, FALSE, "")

-----------------------------------------------------------------------------
(* Context: dispatch *)

\* getattr(self, self.imodes[self.imode])()
RunMode(c, interp, ivalue) ==
    CASE c.imode = 0 -> _console_decimal_write(c, interp)
      [] c.imode = 1 -> _console_decimal_read(c, interp, ivalue)
      [] c.imode = 2 -> _console_ascii_write(c, interp)
      [] c.imode = 3 -> _console_ascii_read(c, interp, ivalue)
      [] c.imode = 4 -> _modem_ascii_write(c, interp)
      [] c.imode = 5 -> _modem_ascii_read(c, interp, ivalue)
      [] c.imode = 6 -> _buffer_program(c)
      [] c.imode = 7 -> _execute_task(c)
      [] c.imode = 8 -> _buffer_enqueue(c)
      [] c.imode = 9 -> _buffer_dequeue_filo(c)
      [] c.imode = 10 -> _buffer_dequeue_fifo(c)
      [] c.imode = 11 -> _buffer_clear(c)
      [] c.imode = 12 -> _convert_lower_case(c)
      [] c.imode = 13 -> _convert_upper_case(c)
      [] c.imode = 14 -> _convert_decimal(c)
      [] c.imode = 15 -> _convert_tbas(c)
      [] c.imode = 16 -> _alu_add(c)
      [] c.imode = 17 -> _alu_sub(c)
      [] c.imode = 18 -> _alu_mul(c)
      [] c.imode = 19 -> _alu_div(c)
      [] c.imode = 20 -> _alu_and(c)
      [] c.imode = 21 -> _alu_or(c)
      [] c.imode = 22 -> _alu_not(c)
      [] c.imode = 23 -> _alu_xor(c)
      [] c.imode = 24 -> _get_mptr(c)
      [] c.imode = 25 -> _get_eptr(c)
      [] c.imode = 26 -> _jump_left(c)
      [] OTHER -> _jump_right(c)

\* mutant of _run_operation: an unknown I/O mode is passed over
_run_operation_unchecked(c, interp, ivalue) ==
    IF c.in_dead_loop # 0 THEN ReturnsFrame(c, TRUE, "in dead loop")
    ELSE IF c.imode \notin imodes THEN Returns(c, None)
    ELSE RunMode(c, interp, ivalue)

_run_operation(c, interp, ivalue) ==
    IF c.in_dead_loop # 0 THEN ReturnsFrame(c, TRUE, "in dead loop")
    ELSE IF c.imode \notin imodes THEN Raises(c, "UserWarning")
    ELSE RunMode(c, interp, ivalue)

\* getattr(self, self.operators[operator])()
RunOperator(c, interp, ivalue) ==
    CASE c.operator = ">" -> _advance_mptr(c)
      [] c.operator = "<" -> _retreat_mptr(c)
      [] c.operator = "+" -> _increment_mcell(c)
      [] c.operator = "-" -> _decrement_mcell(c)
      [] c.operator = "[" -> _begin_loop(c)
      [] c.operator = "]" -> _end_loop(c)
      [] c.operator = "=" -> _set_iomode(c)
      [] OTHER -> _run_operation(c, interp, ivalue)

\* the Frame _eval_op appends: the handler's, or a fresh one when it returned None
FrameOf(r) == IF r.ret = None THEN Frame(r.c, FALSE, "") ELSE r.ret[1]

\* mutant of _eval_op: no Frame is made for a handler that returned None
_eval_op_without_fallback(c, interp, ivalue) ==
    IF c.operator \notin operators THEN Raises(c, "AssertionError")
    ELSE IF c.mptr >= WORKING_MEMORY_BYTES THEN Raises(c, "IndexError")
    ELSE LET r == RunOperator(c, interp, ivalue)
         IN  IF r.exc # "" \/ r.ret = None THEN r
             ELSE [r EXCEPT !.c.stack = Append(r.c.stack, FrameOf(r))]

_eval_op(c, interp, ivalue) ==
    IF c.operator \notin operators THEN Raises(c, "AssertionError")
    ELSE IF c.mptr >= WORKING_MEMORY_BYTES THEN Raises(c, "IndexError")
    ELSE LET Appended(r) ==
                 IF r.exc # "" THEN [r EXCEPT !.c.stack = InPlace(r.c.stack, r.c)]
                 ELSE [r EXCEPT !.c.stack = Append(InPlace(r.c.stack, r.c), FrameOf(r)),
                                !.ret = <<FrameOf(r)>>]
         IN  CHOOSE out \in {Appended(r) : r \in {RunOperator(c, interp, ivalue)}} : TRUE

\* if self.goto: (None and 0 do not count)
GotoSet(c) == c.goto # None /\ c.goto[1] # 0

\* after the instruction: follow the goto, or go on to the next instruction
Advance(c) ==
    IF GotoSet(c) THEN [c EXCEPT !.eptr = c.goto[1], !.goto = None]
    ELSE [c EXCEPT !.eptr = c.eptr + 1]

__next__(c, interp, ivalue) ==
    IF c.eptr = n_instructions(c) THEN Raises(c, "RuntimeError")
    ELSE IF ~PyIndexOK(c.eptr, n_instructions(c)) THEN Raises(c, "IndexError")
    ELSE LET c1 == [c EXCEPT !.operator = c.source[PyIndex(c.eptr, n_instructions(c)) + 1]]
             r == _eval_op(c1, interp, ivalue)
         IN  IF r.exc # "" THEN r ELSE [r EXCEPT !.c = Advance(r.c)]

\* Context.run: while self.eptr < self.n_instructions
Running(c) == c.eptr < n_instructions(c)

-----------------------------------------------------------------------------
(* Interpreter *)

\* The classes of the exceptions a run can raise; all derive from Exception.
Exceptions ==
    {"UserWarning", "AssertionError", "IndexError", "TypeError", "ValueError",
     "AttributeError", "UnicodeDecodeError", "RuntimeError"}

\* mutant of RunOutcome: except UserWarning in place of except Exception
RunOutcomeCatchesWarnings(exc) ==
    IF exc = "" THEN [pc |-> "returned", counted |-> 1, logged |-> ""]
    ELSE IF exc = "UserWarning" THEN [pc |-> "returned", counted |-> 0, logged |-> exc]
    ELSE [pc |-> "raised", counted |-> 0, logged |-> ""]

\* mutant of RunOutcome: the run is counted whether it faulted or not
RunOutcomeCountsEveryRun(exc) ==
    IF exc = "" THEN [pc |-> "returned", counted |-> 1, logged |-> ""]
    ELSE IF exc \in Exceptions THEN [pc |-> "returned", counted |-> 1, logged |-> exc]
    ELSE [pc |-> "raised", counted |-> 1, logged |-> ""]

\* Interpreter.run after ctx.run() ended with exception exc ("" when it
\* returned): count the run and return ctx, or catch, log and return ctx.
RunOutcome(exc) ==
    IF exc = "" THEN [pc |-> "returned", counted |-> 1, logged |-> ""]
    ELSE IF exc \in Exceptions THEN [pc |-> "returned", counted |-> 0, logged |-> exc]
    ELSE [pc |-> "raised", counted |-> 0, logged |-> ""]

\* Interpreter(console_read, console_write, modem_read, modem_write)
Interpreter(cr, cw, mr, mw) ==
    [ console_read  |-> cr,
      console_write |-> cw,
      modem_read    |-> mr,
      modem_write   |-> mw,
      run_counter   |-> 0 ]

-----------------------------------------------------------------------------
(* The environment: programs, ports, runs *)

\* the runs (calls of Interpreter.run) the model tells apart
Runs == {1, 2}

\* the characters of the programs: the operators and one that is none
Alphabet == operators \cup {"x"}

AllPrograms == UNION {[1..n -> Alphabet] : n \in 0..MaxLen}

\* m times "+", then "=": select I/O mode m (the cell is left at m)
SelectMode(m) == Rep("+", m) \o <<"=">>

\* the programs of test_ABC, test_decimal_read_write, test_modem_read_write and
\* test_buffer_program
ProgramABC ==
    <<"+", "+", "=">> \o Rep("+", 6) \o <<"[", "-", ">">> \o Rep("+", 8)
        \o <<"<", "]", ">", "+", "?", "+", "?", "+", "?">>
ProgramDecimalReadWrite == <<"+", "=", ">", "?", "<", "-", "=", ">", "?">>
ProgramModemReadWrite == Rep("+", 5) \o <<"=", ">", "?", "<", "-", "=", ">", "?">>
ProgramBufferProgram == SelectMode(6) \o <<"?">>

\* select mode 7 and run task t, on an empty buffer and on a buffer of one byte
TaskProgram(t) ==
    SelectMode(7) \o (IF t < 7 THEN Rep("-", 7 - t) ELSE Rep("+", t - 7)) \o <<"?">>
BufferedTaskProgram(t) ==
    SelectMode(8) \o <<"?", "-", "=">>
        \o (IF t < 7 THEN Rep("-", 7 - t) ELSE Rep("+", t - 7)) \o <<"?">>

\* Programs of the tests and of the specification, and programs that reach each
\* I/O mode, the modes outside the table, and cells that leave the byte range.
Samples ==
    { <<"[", "+", "]", "+">>,
      <<"+", "+", "+", "[", "?", "-", "]">>,
      <<"+", "[", "-", "]", "]", "+">>,
      <<"[", "[", "?", "=", "]", ">", "]", "+">>,
      SelectMode(28) \o <<">", "[", "?", "]", "<", "?", "+">>,
      SelectMode(8) \o <<"?", "?">> \o Rep("+", 8) \o <<"=", "?", "?", "+", "?", "-">>,
      SelectMode(7) \o <<"-", "?", "+">>,
      SelectMode(8) \o <<"?", "[", "-", "?">>,
      SelectMode(8) \o <<"?", "-", "-", "=", "?">>,
      <<"+", "[", ">", "+", "+", "[", "-", "]", "<", "-", "]", "+">>,
      ProgramABC, ProgramDecimalReadWrite, ProgramModemReadWrite,
      ProgramBufferProgram }
    \cup { SelectMode(m) \o <<"?", "?">> : m \in 0..28 }
    \cup { SelectMode(20) \o <<"?", op, "?">> : op \in operators }
    \cup { TaskProgram(t) : t \in 0..10 }
    \cup { BufferedTaskProgram(t) : t \in 0..10 }

Programs == AllPrograms \cup Samples

\* programs that walk to the extent of the memory and of a cell
ExtentPrograms ==
    { Rep(">", WORKING_MEMORY_BYTES) \o <<"<">>,
      Rep(">", WORKING_MEMORY_BYTES - 1) \o <<"+", "<">>,
      Rep("+", BYTE_MAX + 1) \o <<"-">>,
      Rep(">", WORKING_MEMORY_BYTES) \o <<"?">>,
      SelectMode(6) \o Rep(">", WORKING_MEMORY_BYTES) \o <<"?">>,
      SelectMode(8) \o <<"?", "-", "-", "=", "?">> }

\* k "+", then the loop that writes the cell and counts it down
CountDown(k) == Rep("+", k) \o <<"[", "?", "-", "]">>

\* the count-downs, and one that runs into an unmatched "]" after its loop
CountDownPrograms ==
    {CountDown(k) : k \in (1..MaxCount) \cup {BYTE_MAX}} \cup {CountDown(2) \o <<"]">>}

\* what a port hands to a read of one character: a digit, a lowercase letter,
\* a character beyond one byte, or "" at the end of the input
Inputs ==
    {<<>>, <<8364>>} \cup {<<d>> : d \in 48..57} \cup {<<l>> : l \in 97..122}

\* the next instruction reads a port
ReadsPort(c, interp) ==
    /\ PyIndexOK(c.eptr, n_instructions(c))
    /\ c.source[PyIndex(c.eptr, n_instructions(c)) + 1] = "?"
    /\ c.in_dead_loop = 0
    /\ \/ c.imode \in {1, 3} /\ interp.console_read
       \/ c.imode = 5 /\ interp.modem_read

PortInputs(c, interp) == IF ReadsPort(c, interp) THEN Inputs ELSE {<<>>}

\* the traffic of one instruction added to that of the run
AddIO(total, io) ==
    [ console_write |-> total.console_write \o io.console_write,
      modem_write   |-> total.modem_write \o io.modem_write,
      console_read  |-> total.console_read \o io.console_read,
      modem_read    |-> total.modem_read \o io.modem_read ]

\* the instructions a run is followed for
StepBudget(c) == MaxPasses * Len(c.source) + MaxExtraSteps

-----------------------------------------------------------------------------
(* Actions *)

\* mutant of Run: the Context takes over the memory, the buffer, the mode and
\* the loops of the Context of the run before
RunWithoutReset(r, program) ==
    /\ pc[r] = "idle"
    /\ \A s \in Runs : pc[s] # "running"
    /\ interpreter.run_counter < MaxRuns
    /\ LET before == IF \E s \in Runs : pc[s] = "returned"
                     THEN ctx[CHOOSE s \in Runs : pc[s] = "returned"]
                     ELSE reset(program)
       IN  ctx' = [ctx EXCEPT ![r] = [before EXCEPT !.source = program, !.stack = <<>>,
                                                   !.eptr = 0, !.goto = None]]
    /\ pc' = [pc EXCEPT ![r] = "running"]
    /\ logged' = [logged EXCEPT ![r] = ""]
    /\ port_io' = [port_io EXCEPT ![r] = NoIO]
    /\ UNCHANGED interpreter

\* mutant of Run: the memory is an attribute of the class Context, and a new
\* Context resets it under the runs in flight
RunSharedMemory(r, program) ==
    /\ pc[r] = "idle"
    /\ interpreter.run_counter < MaxRuns
    /\ ctx' = [s \in Runs |->
                 IF s = r THEN reset(program)
                 ELSE IF pc[s] = "running" THEN [ctx[s] EXCEPT !.mcell = reset(program).mcell]
                 ELSE ctx[s]]
    /\ pc' = [pc EXCEPT ![r] = "running"]
    /\ logged' = [logged EXCEPT ![r] = ""]
    /\ port_io' = [port_io EXCEPT ![r] = NoIO]
    /\ UNCHANGED interpreter

\* Interpreter.run(program), up to its first instruction: a fresh Context.
\* Nothing in the call waits for another run: the specifications say which
\* runs are dispatched while another is in flight.
Run(r, program) ==
    /\ pc[r] = "idle"
    /\ interpreter.run_counter < MaxRuns
    /\ ctx' = [ctx EXCEPT ![r] = reset(program)]
    /\ pc' = [pc EXCEPT ![r] = "running"]
    /\ logged' = [logged EXCEPT ![r] = ""]
    /\ port_io' = [port_io EXCEPT ![r] = NoIO]
    /\ UNCHANGED interpreter

\* await next(self), the instruction succeeding
Step(r) ==
    /\ pc[r] = "running"
    /\ Running(ctx[r])
    /\ Len(ctx[r].stack) < StepBudget(ctx[r])
    /\ \E ivalue \in PortInputs(ctx[r], interpreter) :
         LET res == __next__(ctx[r], interpreter, ivalue)
         IN  /\ res.exc = ""
             /\ ctx' = [ctx EXCEPT ![r] = res.c]
             /\ port_io' = [port_io EXCEPT ![r] = AddIO(port_io[r], res.io)]
    /\ UNCHANGED <<interpreter, pc, logged>>

\* await next(self), the instruction raising: Interpreter.run ends
Fault(r) ==
    /\ pc[r] = "running"
    /\ Running(ctx[r])
    /\ Len(ctx[r].stack) < StepBudget(ctx[r])
    /\ \E ivalue \in PortInputs(ctx[r], interpreter) :
         LET res == __next__(ctx[r], interpreter, ivalue)
             out == RunOutcome(res.exc)
         IN  /\ res.exc # ""
             /\ ctx' = [ctx EXCEPT ![r] = res.c]
             /\ port_io' = [port_io EXCEPT ![r] = AddIO(port_io[r], res.io)]
             /\ pc' = [pc EXCEPT ![r] = out.pc]
             /\ logged' = [logged EXCEPT ![r] = out.logged]
             /\ interpreter' = [interpreter EXCEPT
                                  !.run_counter = interpreter.run_counter + out.counted]

\* ctx.run() returned: Interpreter.run counts the run and returns ctx
Complete(r) ==
    /\ pc[r] = "running"
    /\ ~Running(ctx[r])
    /\ LET out == RunOutcome("")
       IN  /\ pc' = [pc EXCEPT ![r] = out.pc]
           /\ logged' = [logged EXCEPT ![r] = out.logged]
           /\ interpreter' = [interpreter EXCEPT
                                !.run_counter = interpreter.run_counter + out.counted]
    /\ UNCHANGED <<ctx, port_io>>

\* the caller is done inspecting the Context the call returned and drops it
Discard(r) ==
    /\ pc[r] = "returned"
    /\ ctx' = [ctx EXCEPT ![r] = reset(<<>>)]
    /\ pc' = [pc EXCEPT ![r] = "idle"]
    /\ logged' = [logged EXCEPT ![r] = ""]
    /\ port_io' = [port_io EXCEPT ![r] = NoIO]
    /\ UNCHANGED interpreter

-----------------------------------------------------------------------------
(* Specifications *)

\* the Interpreter as the command line builds it (no port, the console, the
\* modem), or with both the console and the modem
PortConfigs ==
    { Interpreter(FALSE, FALSE, FALSE, FALSE),
      Interpreter(TRUE, TRUE, FALSE, FALSE),
      Interpreter(FALSE, FALSE, TRUE, TRUE),
      Interpreter(TRUE, TRUE, TRUE, TRUE) }

InitWith(interp) ==
    /\ interpreter = interp
    /\ ctx = [r \in Runs |-> reset(<<>>)]
    /\ pc = [r \in Runs |-> "idle"]
    /\ logged = [r \in Runs |-> ""]
    /\ port_io = [r \in Runs |-> NoIO]

Init == \E interp \in PortConfigs : InitWith(interp)

\* sequential runs of one Interpreter
Next ==
    \/ \E program \in Programs : Run(1, program)
    \/ Step(1)
    \/ Fault(1)
    \/ Complete(1)
    \/ Discard(1)

Spec == Init /\ [][Next]_vars

\* sequential runs, without ports, of the programs that walk to the extents
InitExtent == InitWith(Interpreter(FALSE, FALSE, FALSE, FALSE))

NextExtent ==
    \/ \E program \in ExtentPrograms : Run(1, program)
    \/ Step(1)
    \/ Fault(1)
    \/ Complete(1)
    \/ Discard(1)

SpecExtent == InitExtent /\ [][NextExtent]_vars

\* sequential runs of the count-down programs, with a console to write to
InitCountDown ==
    \E interp \in {Interpreter(FALSE, TRUE, FALSE, FALSE),
                    Interpreter(TRUE, TRUE, TRUE, TRUE)} : InitWith(interp)

NextCountDown ==
    \/ \E program \in CountDownPrograms : Run(1, program)
    \/ Step(1)
    \/ Fault(1)
    \/ Complete(1)
    \/ Discard(1)

SpecCountDown == InitCountDown /\ [][NextCountDown]_vars

\* programs that leave memory, the buffer, the mode, the loop stack or the
\* dead-loop counter changed, and that read at most once
TwicePrograms ==
    AllPrograms \cup
    { ProgramDecimalReadWrite, ProgramModemReadWrite, ProgramBufferProgram,
      SelectMode(8) \o <<"?", "[", "-", "?">>,
      SelectMode(8) \o <<"?", "-", "-", "=", "?">>,
      SelectMode(7) \o <<"-", "?", "+">>,
      SelectMode(20) \o <<"?", "+", "?">>,
      <<"[", "[", "?", "=", "]", ">", "]", "+">>,
      <<"+", "+", "+", "[", "?", "-", "]">>,
      <<"+", "[", "-", "]", "]", "+">> }

\* the same program run twice through one Interpreter, the second call after
\* the first has returned; the caller keeps both Contexts
NextTwice ==
    \/ \E program \in TwicePrograms : pc[2] = "idle" /\ Run(1, program)
    \/ pc[1] = "returned" /\ Run(2, ctx[1].source)
    \/ \E r \in Runs : Step(r)
    \/ \E r \in Runs : Fault(r)
    \/ \E r \in Runs : Complete(r)

SpecTwice == Init /\ [][NextTwice]_vars

\* a program that comes back to its first instruction, a "[", with a cell that
\* is not 0: mode 12 turns the 12 of cell 0 into 109; cell 1 selects mode 26
\* and the "?" jumps 109 to the left from position 77 of 91, which is
\* position 59 counted from the end; from there cell 1 selects mode 11 and the
\* instruction pointer counts up through -1 to 0
ProgramGotoZero ==
    <<"[", "]">> \o SelectMode(12) \o <<"?", ">">> \o Rep("+", 41) \o <<"<", ">">>
        \o Rep("-", 15) \o <<"=", "<", "?">> \o Rep("<", 13)

\* programs that jump with the modes 26 and 27, by the program length and by
\* a cell value above it, in a loop, and from a cell that mode 20 has written
JumpPrograms ==
    { ProgramGotoZero,
      SelectMode(26) \o <<"?">>,
      SelectMode(26) \o <<"?", "+">>,
      SelectMode(27) \o <<"?">>,
      SelectMode(27) \o <<"?", "+">>,
      SelectMode(12) \o <<"?", ">">> \o SelectMode(27) \o <<"<", "?", "+">>,
      <<"+", "[", ">">> \o SelectMode(26) \o <<"?", "]">>,
      <<"+", "[", ">">> \o SelectMode(27) \o <<"?", "]">>,
      SelectMode(20) \o <<"?", ">">> \o SelectMode(26) \o <<"<", "?">>,
      SelectMode(20) \o <<"?", ">">> \o SelectMode(27) \o <<"<", "?">> }

\* sequential runs of the programs that jump
NextJump ==
    \/ \E program \in JumpPrograms : Run(1, program)
    \/ Step(1)
    \/ Fault(1)
    \/ Complete(1)
    \/ Discard(1)

SpecJump == Init /\ [][NextJump]_vars

\* cell 0 selects the modes, cell 1 holds the operand: q and q + 1 are
\* enqueued from cell 1, cell 1 is brought to v, and "?" runs mode m on it
\* three times (twice with a value in the buffer, once with the buffer empty)
ALUProgram(q, v, m) ==
    SelectMode(8) \o <<">">> \o Rep("+", q) \o <<"?", "+", "?">>
        \o (IF v > q THEN Rep("+", v - q - 1) ELSE Rep("-", q + 1 - v))
        \o <<"<">> \o Rep("+", m - 8) \o <<"=", ">", "?", "?", "?">>

\* mode 16 on an empty buffer leaves 255 in cell 1, mode 8 enqueues it, and
\* mode 16 adds the 255 of the buffer to the 255 of the cell
ProgramAddLarge ==
    SelectMode(16) \o <<">", "?", "<">> \o Rep("-", 8) \o <<"=", ">", "?", "<">>
        \o Rep("+", 8) \o <<"=", ">", "?", "?">>

\* programs that run the arithmetic modes 16..23
ALUPrograms ==
    { ALUProgram(q, v, m) : q \in 0..MaxOperand, v \in 0..MaxOperand, m \in 16..23 }
        \cup { ProgramAddLarge }

\* sequential runs, without ports, of the programs of the arithmetic modes
NextALU ==
    \/ \E program \in ALUPrograms : Run(1, program)
    \/ Step(1)
    \/ Fault(1)
    \/ Complete(1)
    \/ Discard(1)

SpecALU == InitExtent /\ [][NextALU]_vars

\* programs that read, write memory, loop, enqueue and fault
ConcurrentPrograms ==
    { <<"+", "=", "?", "+">>,
      <<"+", "+", "[", "-", "]">>,
      <<"+", ">", "+", "<", "-">>,
      <<"+", "]", "+">>,
      SelectMode(8) \o <<"?", "-", "?">>,
      <<"[", "+", "]", "=", "?">> }

\* two runs of one Interpreter that has a console, the second dispatched while
\* the first is in flight; a step of either run is one instruction, and the
\* callers keep both Contexts
InitConcurrent == InitWith(Interpreter(TRUE, TRUE, FALSE, FALSE))

NextConcurrent ==
    \/ \E program \in ConcurrentPrograms : pc[2] = "idle" /\ Run(1, program)
    \/ \E program \in ConcurrentPrograms : pc[1] = "running" /\ Run(2, program)
    \/ \E r \in Runs : Step(r)
    \/ \E r \in Runs : Fault(r)
    \/ \E r \in Runs : Complete(r)

SpecConcurrent == InitConcurrent /\ [][NextConcurrent]_vars

-----------------------------------------------------------------------------
(* Properties: vocabulary *)

\* the instruction Context.__next__ fetches next ("None" when eptr is outside
\* the program)
NextOp(c) ==
    IF PyIndexOK(c.eptr, n_instructions(c))
    THEN c.source[PyIndex(c.eptr, n_instructions(c)) + 1]
    ELSE "None"

\* this step is run r executing (or failing to execute) its next instruction
Executes(r) ==
    /\ pc[r] = "running"
    /\ Running(ctx[r])
    /\ (ctx'[r] # ctx[r] \/ pc'[r] # pc[r])

\* this step is run r executing its next instruction without a fault
Succeeds(r) == Executes(r) /\ pc'[r] = "running"

\* this step ends run r with a fault / with a normal completion
Faults(r) == pc[r] = "running" /\ pc'[r] # "running" /\ logged'[r] # ""
CompletesNormally(r) == pc[r] = "running" /\ pc'[r] = "returned" /\ logged'[r] = ""

LastFrame(c) == c.stack[Len(c.stack)]

IsPrefix(s, t) == Len(s) <= Len(t) /\ SubSeq(t, 1, Len(s)) = s

\* the number a decimal text without sign denotes (-1 when it is no such text)
RECURSIVE DecimalValue(_)
DecimalValue(s) ==
    IF s = <<>> \/ s[Len(s)] \notin 48..57 THEN 0 - 1
    ELSE IF Len(s) = 1 THEN s[1] - 48
    ELSE IF s[1] = 48 \/ DecimalValue(SubSeq(s, 1, Len(s) - 1)) < 0 THEN 0 - 1
    ELSE 10 * DecimalValue(SubSeq(s, 1, Len(s) - 1)) + (s[Len(s)] - 48)

\* the port that "?" needs in mode m is absent
PortAbsent(m, interp) ==
    \/ m \in {0, 2} /\ ~interp.console_write
    \/ m \in {1, 3} /\ ~interp.console_read
    \/ m = 4 /\ ~interp.modem_write
    \/ m = 5 /\ ~interp.modem_read

\* the state of a Context that a fault must not let run on
Halted(r) == pc[r] = "returned" /\ pc'[r] = "returned" => ctx'[r] = ctx[r]

-----------------------------------------------------------------------------
(* Properties *)

\* C1: Interpreter.run never raises to its caller: a run that ends, normally or
\* by a fault of any kind, ends by returning its Context, and the Context a
\* faulted run returns holds exactly the Frames appended before the fault.
C1_RunAlwaysReturnsContext ==
    [][\A r \in Runs :
          pc[r] = "running" =>
             /\ pc'[r] \in {"running", "returned"}
             /\ pc'[r] = "returned" =>
                   /\ ctx'[r].source = ctx[r].source
                   /\ ctx'[r].stack = ctx[r].stack]_vars

\* a run that faulted mid-run on an unrecognized character, after some Frames
C1_Witness ==
    /\ pc[1] = "returned"
    /\ logged[1] = "AssertionError"
    /\ Len(ctx[1].stack) > 0
    /\ NextOp(ctx[1]) = "x"

\* C2: run_counter never decreases; a run that completes normally increases it
\* by exactly 1, and nothing else (a faulted run included) changes it.
C2_RunCounterCountsSuccesses ==
    [][/\ interpreter'.run_counter >= interpreter.run_counter
       /\ \A r \in Runs :
             /\ CompletesNormally(r) =>
                   interpreter'.run_counter = interpreter.run_counter + 1
             /\ Faults(r) => interpreter'.run_counter = interpreter.run_counter
       /\ (\A r \in Runs : ~CompletesNormally(r)) =>
             interpreter'.run_counter = interpreter.run_counter]_vars

\* a faulted run that followed a successful one: the counter still reads 1
C2_Witness ==
    /\ interpreter.run_counter = 1
    /\ pc[1] = "returned"
    /\ logged[1] # ""
    /\ Len(ctx[1].stack) > 0

\* C3: an instruction that executes without a fault appends exactly one Frame,
\* the Frame of that instruction, at the end of the history; no step of a run
\* removes or reorders a Frame.
C3_OneFramePerInstruction ==
    [][\A r \in Runs :
          /\ pc[r] = "running" /\ pc'[r] # "idle" => IsPrefix(ctx[r].stack, ctx'[r].stack)
          /\ Succeeds(r) =>
                /\ Len(ctx'[r].stack) = Len(ctx[r].stack) + 1
                /\ LastFrame(ctx'[r]).eptr = ctx[r].eptr
                /\ LastFrame(ctx'[r]).operator = NextOp(ctx[r])
          /\ pc[r] = "running" /\ ~Succeeds(r) => ctx'[r].stack = ctx[r].stack]_vars

\* a history with a "?" that was dispatched and a "?" skipped in a dead loop
C3_Witness ==
    \E i, j \in 1..Len(ctx[1].stack) :
        /\ ctx[1].stack[i].operator = "?" /\ ~ctx[1].stack[i].noop
        /\ ctx[1].stack[j].operator = "?" /\ ctx[1].stack[j].noop
        /\ Len(ctx[1].stack) > Len(ctx[1].source)

\* C4: "]" executed with an empty loop stack aborts the run as a fault: the
\* run returns its Context at that instruction, at most one Frame is added,
\* run_counter is unchanged, and the returned Context executes nothing more.
C4_UnmatchedCloseFaults ==
    [][\A r \in Runs :
          /\ Executes(r) /\ NextOp(ctx[r]) = "]" /\ ctx[r].loop_ref = <<>> =>
                /\ pc'[r] = "returned"
                /\ logged'[r] # ""
                /\ ctx'[r].eptr = ctx[r].eptr
                /\ Len(ctx'[r].stack) <= Len(ctx[r].stack) + 1
                /\ interpreter'.run_counter = interpreter.run_counter
          /\ Halted(r)]_vars

\* a run aborted at a "]" that followed a closed loop
C4_Witness ==
    /\ pc[1] = "returned"
    /\ logged[1] = "UserWarning"
    /\ NextOp(ctx[1]) = "]"
    /\ ctx[1].loop_ref = <<>>
    /\ \E i \in 1..Len(ctx[1].stack) : ctx[1].stack[i].operator = "]"

\* C5: "?" outside a dead loop with imode outside 0..27 aborts the run as a
\* fault (run_counter unchanged, nothing more executes); the "=" that stores
\* such a value does not fault; "?" inside a dead loop with such an imode is a
\* no-op and not a fault.
C5_UnknownModeFaults ==
    [][\A r \in Runs :
          /\ Executes(r) /\ NextOp(ctx[r]) = "?" /\ ctx[r].imode \notin imodes
               /\ ctx[r].in_dead_loop = 0 =>
                /\ pc'[r] = "returned"
                /\ logged'[r] # ""
                /\ ctx'[r].stack = ctx[r].stack
                /\ interpreter'.run_counter = interpreter.run_counter
          /\ Executes(r) /\ NextOp(ctx[r]) = "=" /\ ctx[r].in_dead_loop = 0
               /\ ctx[r].mptr < WORKING_MEMORY_BYTES /\ mvalue(ctx[r]) \notin imodes =>
                /\ pc'[r] = "running"
                /\ ctx'[r].imode = mvalue(ctx[r])
          /\ Executes(r) /\ NextOp(ctx[r]) = "?" /\ ctx[r].imode \notin imodes
               /\ ctx[r].in_dead_loop > 0 =>
                /\ pc'[r] = "running"
                /\ LastFrame(ctx'[r]).noop
                /\ ctx'[r].imode = ctx[r].imode
          /\ Halted(r)]_vars

\* mode 28 was stored, a "?" in a dead loop passed, a "?" outside it faulted
C5_Witness ==
    /\ pc[1] = "returned"
    /\ logged[1] = "UserWarning"
    /\ ctx[1].imode = 28
    /\ NextOp(ctx[1]) = "?"
    /\ ctx[1].in_dead_loop = 0
    /\ \E i \in 1..Len(ctx[1].stack) :
          /\ ctx[1].stack[i].operator = "?"
          /\ ctx[1].stack[i].noop
          /\ ctx[1].stack[i].imode = 28

\* C6: in every reachable state 0 <= mptr < memory length: ">" executed with
\* mptr at the last cell leaves mptr unchanged and yields a noop Frame, never a
\* fault, and "<" executed at mptr 0 leaves mptr at 0 with a noop Frame, however
\* many ">" or "<" are repeated.
C6_MptrWithinMemory ==
    [][\A r \in Runs :
          /\ ctx[r].mptr \in 0..(WORKING_MEMORY_BYTES - 1)
          /\ Executes(r) /\ NextOp(ctx[r]) = ">" /\ ctx[r].in_dead_loop = 0
               /\ ctx[r].mptr = WORKING_MEMORY_BYTES - 1 =>
                /\ pc'[r] = "running"
                /\ ctx'[r].mptr = ctx[r].mptr
                /\ LastFrame(ctx'[r]).noop
          /\ Executes(r) /\ NextOp(ctx[r]) = "<" /\ ctx[r].in_dead_loop = 0
               /\ ctx[r].mptr = 0 =>
                /\ pc'[r] = "running"
                /\ ctx'[r].mptr = 0
                /\ LastFrame(ctx'[r]).noop]_vars

\* C7: in every reachable state every working-memory cell holds an integer in
\* 0..255, whatever operators and I/O-mode operations have run.
C7_CellsAreBytes ==
    \A r \in Runs : \A a \in 0..(WORKING_MEMORY_BYTES - 1) :
        /\ ~IsBytes(ctx[r].mcell[a])
        /\ ctx[r].mcell[a] \in 0..BYTE_MAX

\* C8: "+" and "-" saturate and never wrap around: k "+" from a zeroed cell
\* (k <= byte max) leave the cell at k; "+" on a cell at byte max and "-" on a
\* cell at 0 leave the cell as it is, with a noop Frame; any other "+" or "-"
\* (outside a dead loop, which C9 covers) changes the cell by exactly 1 and its
\* Frame is not tagged noop.
C8_IncrementDecrementSaturate ==
    [][\A r \in Runs :
          /\ (\A i \in 1..Len(ctx[r].stack) : ctx[r].stack[i].operator = "+")
               /\ Len(ctx[r].stack) <= BYTE_MAX =>
                ctx[r].mcell[0] = Len(ctx[r].stack)
          /\ Executes(r) /\ NextOp(ctx[r]) \in {"+", "-"} /\ ctx[r].in_dead_loop = 0
               /\ ctx[r].mptr \in 0..(WORKING_MEMORY_BYTES - 1) =>
                LET op    == NextOp(ctx[r])
                    cell  == mvalue(ctx[r])
                    cell1 == ctx'[r].mcell[ctx[r].mptr]
                IN  /\ pc'[r] = "running"
                    /\ ctx'[r].mcell = [ctx[r].mcell EXCEPT ![ctx[r].mptr] = cell1]
                    /\ IF op = "+" /\ cell = BYTE_MAX
                          THEN cell1 = BYTE_MAX /\ LastFrame(ctx'[r]).noop
                       ELSE IF op = "-" /\ cell = 0
                          THEN cell1 = 0 /\ LastFrame(ctx'[r]).noop
                       ELSE /\ cell1 = (IF op = "+" THEN cell + 1 ELSE cell - 1)
                            /\ ~LastFrame(ctx'[r]).noop]_vars

\* C9: while the dead-loop counter is greater than 0, each of ">", "<", "+",
\* "-", "=", "?" leaves working memory, mptr, the I/O buffer, imode, the loop
\* stack and the dead-loop counter unchanged, performs no port I/O, and is
\* recorded as a noop Frame; program "[+]+" from zeroed memory ends with the
\* cell at 1 and the inner "+" recorded as noop.
C9_DeadLoopSkips ==
    [][\A r \in Runs :
          /\ Executes(r) /\ ctx[r].in_dead_loop > 0
               /\ NextOp(ctx[r]) \in {">", "<", "+", "-", "=", "?"} =>
                /\ pc'[r] = "running"
                /\ ctx'[r].mcell = ctx[r].mcell
                /\ ctx'[r].mptr = ctx[r].mptr
                /\ ctx'[r].icell = ctx[r].icell
                /\ ctx'[r].imode = ctx[r].imode
                /\ ctx'[r].loop_ref = ctx[r].loop_ref
                /\ ctx'[r].in_dead_loop = ctx[r].in_dead_loop
                /\ port_io'[r] = port_io[r]
                /\ Len(ctx'[r].stack) = Len(ctx[r].stack) + 1
                /\ LastFrame(ctx'[r]).noop
                /\ LastFrame(ctx'[r]).operator = NextOp(ctx[r])
          /\ pc[r] = "returned" /\ ctx[r].source = <<"[", "+", "]", "+">> =>
                /\ logged[r] = ""
                /\ ctx[r].mcell[0] = 1
                /\ ctx[r].stack[2].operator = "+" /\ ctx[r].stack[2].noop
                /\ ctx[r].stack[4].operator = "+" /\ ~ctx[r].stack[4].noop]_vars

\* a "?" of mode 0 skipped in a dead loop of an Interpreter that has a console
\* to write to, and nothing written
C9_Witness ==
    /\ interpreter.console_write
    /\ port_io[1].console_write = <<>>
    /\ \E i \in 1..Len(ctx[1].stack) :
          /\ ctx[1].stack[i].operator = "?"
          /\ ctx[1].stack[i].in_dead_loop > 0
          /\ ctx[1].stack[i].imode = 0
          /\ ctx[1].stack[i].noop
    /\ \E i \in 1..Len(ctx[1].stack) :
          /\ ctx[1].stack[i].operator = "="
          /\ ctx[1].stack[i].in_dead_loop > 0
          /\ ctx[1].stack[i].noop

\* C10: the dead-loop counter of a Context is never negative; a step of the
\* run increases it only when "[" executes with the counter already > 0 or
\* with the current cell equal to 0, and decreases it, by exactly 1, only when
\* "]" executes with the counter > 0: it returns to 0 only through a "]".
C10_DeadLoopCounter ==
    [][\A r \in Runs :
          /\ ctx[r].in_dead_loop >= 0
          /\ pc[r] = "running" /\ ctx'[r].in_dead_loop > ctx[r].in_dead_loop =>
                /\ Executes(r)
                /\ NextOp(ctx[r]) = "["
                /\ (ctx[r].in_dead_loop > 0 \/ mvalue(ctx[r]) = 0)
          /\ pc[r] = "running" /\ ctx'[r].in_dead_loop < ctx[r].in_dead_loop =>
                /\ Executes(r)
                /\ NextOp(ctx[r]) = "]"
                /\ ctx[r].in_dead_loop > 0
                /\ ctx'[r].in_dead_loop = ctx[r].in_dead_loop - 1]_vars

\* a nested dead loop that was entered twice and left twice
C10_Witness ==
    /\ ctx[1].in_dead_loop = 0
    /\ pc[1] = "running"
    /\ \E i \in 1..Len(ctx[1].stack) : ctx[1].stack[i].in_dead_loop = 2
    /\ LastFrame(ctx[1]).operator = "]"

\* C11: for every k in 1..byte max the program of k "+" followed by "[?-]", run
\* with imode 0 and a console to write to, writes the decimal texts of k, k-1,
\* ..., 1 in that order and nothing else, and terminates normally (within
\* 5k + 4 instructions) with the loop cell at 0, the dead-loop counter at 0 and
\* the loop stack empty.
C11_CountDownWritesInOrder ==
    \A r \in Runs : \A k \in 1..BYTE_MAX :
        pc[r] # "idle" /\ ctx[r].source = CountDown(k) /\ interpreter.console_write =>
            LET written == port_io[r].console_write
            IN  /\ logged[r] = ""
                /\ Len(written) <= k
                /\ \A i \in 1..Len(written) : DecimalValue(written[i]) = k + 1 - i
                /\ port_io[r].modem_write = <<>>
                /\ Len(ctx[r].stack) <= 5 * k + 4
                /\ pc[r] = "running" /\ Len(ctx[r].stack) = 5 * k + 4 => ~Running(ctx[r])
                /\ pc[r] = "returned" =>
                      /\ Len(written) = k
                      /\ ctx[r].mcell[0] = 0
                      /\ ctx[r].in_dead_loop = 0
                      /\ ctx[r].loop_ref = <<>>

\* the tested program "+++[?-]" has run to its end and written "3", "2", "1"
C11_Witness ==
    /\ pc[1] = "returned"
    /\ ctx[1].source = CountDown(3)
    /\ port_io[1].console_write = << <<51>>, <<50>>, <<49>> >>

\* C12: the program "++=++++++[->++++++++<]>+?+?+?" selects console ASCII write
\* (imode 2), builds 64 in cell 1 through a loop that runs exactly 8 times, and
\* emits exactly the characters of codes 65, 66, 67 in that order and nothing
\* else, terminating normally.
C12_ProgramWritesABC ==
    \A r \in Runs :
        pc[r] # "idle" /\ ctx[r].source = ProgramABC /\ interpreter.console_write =>
            LET stack == ctx[r].stack
                Begins(noop) == {i \in 1..Len(stack) :
                                   stack[i].operator = "[" /\ stack[i].noop = noop}
            IN  /\ logged[r] = ""
                /\ IsPrefix(port_io[r].console_write, << <<65>>, <<66>>, <<67>> >>)
                /\ port_io[r].modem_write = <<>>
                /\ Len(stack) >= 3 => ctx[r].imode = 2
                /\ Cardinality(Begins(FALSE)) <= 8
                /\ \A i \in Begins(TRUE) :
                      /\ Cardinality(Begins(FALSE)) = 8
                      /\ stack[i].mcell[0] = 0 /\ stack[i].mcell[1] = 64
                /\ pc[r] = "returned" =>
                      /\ port_io[r].console_write = << <<65>>, <<66>>, <<67>> >>
                      /\ Cardinality(Begins(TRUE)) = 1
                      /\ ctx[r].mcell[1] = 67

\* the program of test_ABC has run to its end and written "A", "B", "C"
C12_Witness ==
    /\ pc[1] = "returned"
    /\ ctx[1].source = ProgramABC
    /\ logged[1] = ""
    /\ port_io[1].console_write = << <<65>>, <<66>>, <<67>> >>

\* C13: a recorded Frame is a value copy of the Context at the time it was
\* made: the working memory, mptr, I/O buffer, imode, dead-loop counter, loop
\* stack, eptr, operator and goto of the i-th Frame are left as they are by
\* every later step of the run, also when the step changes the same cells, the
\* buffer or the loop stack of the Context.
C13_FramesAreCopies ==
    [][\A r \in Runs :
          /\ pc[r] = "running" =>
                \A i \in 1..Len(ctx[r].stack) :
                    LET old == ctx[r].stack[i]
                        new == ctx'[r].stack[i]
                    IN  /\ i <= Len(ctx'[r].stack)
                        /\ new.mcell = old.mcell /\ new.mptr = old.mptr
                        /\ new.icell = old.icell /\ new.imode = old.imode
                        /\ new.in_dead_loop = old.in_dead_loop
                        /\ new.loop_ref = old.loop_ref
                        /\ new.eptr = old.eptr /\ new.operator = old.operator
                        /\ new.goto = old.goto
          /\ Succeeds(r) =>
                LET frame == LastFrame(ctx'[r])
                IN  /\ frame.mcell = ctx'[r].mcell /\ frame.mptr = ctx'[r].mptr
                    /\ frame.icell = ctx'[r].icell /\ frame.imode = ctx'[r].imode
                    /\ frame.in_dead_loop = ctx'[r].in_dead_loop
                    /\ frame.loop_ref = ctx'[r].loop_ref
                    /\ frame.eptr = ctx[r].eptr]_vars

\* the cell, the buffer and the loop stack the first Frame recorded have all
\* been changed since
C13_Witness ==
    /\ Len(ctx[1].stack) > 1
    /\ ctx[1].stack[1].mcell # ctx[1].mcell
    /\ ctx[1].stack[1].icell # ctx[1].icell
    /\ ctx[1].stack[1].loop_ref # ctx[1].loop_ref
    /\ ctx[1].stack[1].operator = "+"

\* C14: when the port callback that a console or modem mode (0..5) needs is
\* absent, "?" executed in that mode is a silent no-op and never a fault:
\* working memory, mptr, the I/O buffer and imode are unchanged, one Frame is
\* appended, and execution continues with the next instruction.
C14_AbsentPortIsNoop ==
    [][\A r \in Runs :
          Executes(r) /\ NextOp(ctx[r]) = "?" /\ ctx[r].in_dead_loop = 0
             /\ PortAbsent(ctx[r].imode, interpreter) =>
                /\ pc'[r] = "running"
                /\ logged'[r] = ""
                /\ ctx'[r].mcell = ctx[r].mcell
                /\ ctx'[r].mptr = ctx[r].mptr
                /\ ctx'[r].icell = ctx[r].icell
                /\ ctx'[r].imode = ctx[r].imode
                /\ port_io'[r] = port_io[r]
                /\ Len(ctx'[r].stack) = Len(ctx[r].stack) + 1
                /\ ctx'[r].eptr = ctx[r].eptr + 1]_vars

\* C15: console decimal read followed by console decimal write round-trips a
\* digit: for every digit character d in "0".."8" that the console read port
\* supplies, the program "+=>?<-=>?" stores the numeric value of d in cell 1
\* and then writes exactly the one-character decimal text d to the console
\* write port, completing normally.
C15_DecimalRoundTrip ==
    \A r \in Runs : \A d \in 48..56 :
        /\ pc[r] # "idle" /\ ctx[r].source = ProgramDecimalReadWrite
        /\ interpreter.console_read /\ interpreter.console_write
        /\ port_io[r].console_read = << <<d>> >>
        => /\ logged[r] = ""
           /\ ctx[r].mcell[1] = d - 48
           /\ IsPrefix(port_io[r].console_write, << <<d>> >>)
           /\ port_io[r].modem_write = <<>>
           /\ pc[r] = "returned" =>
                 /\ port_io[r].console_write = << <<d>> >>
                 /\ Len(ctx[r].stack) = Len(ctx[r].source)

\* the program of test_decimal_read_write has read "8" and written "8"
C15_Witness ==
    /\ pc[1] = "returned"
    /\ ctx[1].source = ProgramDecimalReadWrite
    /\ port_io[1].console_read = << <<56>> >>
    /\ port_io[1].console_write = << <<56>> >>
    /\ ctx[1].mcell[1] = 8

\* C16: modem ASCII read followed by modem ASCII write round-trips a character:
\* for every lowercase letter that the modem read port supplies, the program
\* "+++++=>?<-=>?" (read in mode 5, write in mode 4) stores the code of the
\* letter in cell 1 and writes exactly that letter to the modem write port,
\* completing normally without a fault.
C16_ModemRoundTrip ==
    \A r \in Runs : \A l \in 97..122 :
        /\ pc[r] # "idle" /\ ctx[r].source = ProgramModemReadWrite
        /\ interpreter.modem_read /\ interpreter.modem_write
        /\ port_io[r].modem_read = << <<l>> >>
        => /\ logged[r] = ""
           /\ ctx[r].mcell[1] = l
           /\ IsPrefix(port_io[r].modem_write, << <<l>> >>)
           /\ port_io[r].console_write = <<>>
           /\ pc[r] = "returned" =>
                 /\ port_io[r].modem_write = << <<l>> >>
                 /\ Len(ctx[r].stack) = Len(ctx[r].source)

\* C17: "?" executed in mode 6 (buffer program) replaces the I/O buffer with
\* exactly the byte encoding of the whole program text, in order, whatever the
\* buffer held before, and leaves the program, working memory, mptr and imode
\* unchanged (for "++++++=?" the buffer is the 8 bytes of that text).
C17_BufferProgram ==
    [][\A r \in Runs :
          /\ Executes(r) /\ NextOp(ctx[r]) = "?" /\ ctx[r].in_dead_loop = 0
               /\ ctx[r].imode = 6 =>
                /\ pc'[r] = "running"
                /\ Len(ctx'[r].icell) = Len(ctx[r].source)
                /\ \A i \in 1..Len(ctx[r].source) : ctx'[r].icell[i] = Ord(ctx[r].source[i])
                /\ LastFrame(ctx'[r]).icell = ctx'[r].icell
                /\ ctx'[r].source = ctx[r].source
                /\ ctx'[r].mcell = ctx[r].mcell
                /\ ctx'[r].mptr = ctx[r].mptr
                /\ ctx'[r].imode = 6
          /\ pc[r] = "returned" /\ ctx[r].source = ProgramBufferProgram =>
                /\ logged[r] = ""
                /\ ctx[r].icell = <<43, 43, 43, 43, 43, 43, 61, 63>>]_vars

\* C18: runs are deterministic and independent of earlier runs: the same
\* program run twice through the same Interpreter, the ports supplying the
\* same inputs, yields two Contexts with identical Frame histories and final
\* states; nothing of the first run (memory, buffer, imode, loop stack,
\* dead-loop counter, eptr) carries into the second; only run_counter differs.
C18_RunsAreIndependent ==
    /\ pc[2] = "running" /\ ctx[2].stack = <<>> => ctx[2] = reset(ctx[1].source)
    /\ /\ pc[1] = "returned" /\ pc[2] # "idle"
       /\ IsPrefix(port_io[2].console_read, port_io[1].console_read)
       /\ IsPrefix(port_io[2].modem_read, port_io[1].modem_read)
       => /\ IsPrefix(ctx[2].stack, ctx[1].stack)
          /\ IsPrefix(port_io[2].console_write, port_io[1].console_write)
          /\ IsPrefix(port_io[2].modem_write, port_io[1].modem_write)
    /\ /\ pc[1] = "returned" /\ pc[2] = "returned"
       /\ port_io[2].console_read = port_io[1].console_read
       /\ port_io[2].modem_read = port_io[1].modem_read
       => /\ ctx[2] = ctx[1]
          /\ port_io[2] = port_io[1]
          /\ logged[2] = logged[1]
          /\ interpreter.run_counter = IF logged[1] = "" THEN 2 ELSE 0

\* both runs of a program that enqueues, loops and counts down have returned,
\* with the same history
C18_Witness ==
    /\ pc[1] = "returned" /\ pc[2] = "returned"
    /\ ctx[1].source = SelectMode(8) \o <<"?", "[", "-", "?">>
    /\ ctx[2].stack = ctx[1].stack
    /\ ctx[2].icell = <<8, 7>>
    /\ interpreter.run_counter = 2

\* C19: a dequeue (mode 9 LIFO or mode 10 FIFO) executed on an empty I/O buffer
\* is a no-op condition, not a fault: it sets the current cell to the sentinel
\* 0, leaves the buffer empty, produces a Frame tagged noop, and execution
\* continues with the next instruction.
C19_EmptyDequeueIsNoop ==
    [][\A r \in Runs :
          Executes(r) /\ NextOp(ctx[r]) = "?" /\ ctx[r].in_dead_loop = 0
             /\ ctx[r].imode \in {9, 10} /\ ctx[r].icell = <<>> =>
                /\ pc'[r] = "running"
                /\ ctx'[r].mcell = [ctx[r].mcell EXCEPT ![ctx[r].mptr] = 0]
                /\ ctx'[r].icell = <<>>
                /\ Len(ctx'[r].stack) = Len(ctx[r].stack) + 1
                /\ LastFrame(ctx'[r]).noop
                /\ ctx'[r].eptr = ctx[r].eptr + 1]_vars

\* C20: "?" executed in mode 7 (task dispatch) with the current cell holding a
\* known task selector (0..6, 8, 9) drains the I/O buffer to empty, appends one
\* Frame and lets the run continue without a fault, whatever the buffer holds;
\* with the current cell holding any other value (7, say) the run is aborted
\* as a fault.
C20_TaskDispatch ==
    [][\A r \in Runs :
          Executes(r) /\ NextOp(ctx[r]) = "?" /\ ctx[r].in_dead_loop = 0
             /\ ctx[r].imode = 7 /\ ctx[r].mptr \in 0..(WORKING_MEMORY_BYTES - 1) =>
                IF mvalue(ctx[r]) \in (0..6) \cup {8, 9}
                THEN /\ pc'[r] = "running"
                     /\ logged'[r] = ""
                     /\ ctx'[r].icell = <<>>
                     /\ Len(ctx'[r].stack) = Len(ctx[r].stack) + 1
                ELSE /\ pc'[r] = "returned"
                     /\ logged'[r] # ""
                     /\ ctx'[r].stack = ctx[r].stack
                     /\ interpreter'.run_counter = interpreter.run_counter]_vars

\* C21: when "]" executes with the dead-loop counter at 0 and a loop stack
\* that is not empty, it pops the top position p and the very next instruction
\* executed is the "[" at position p, for every p and p = 0 too, whatever the
\* current cell holds; after that step no goto is left pending.
C21_EndLoopJumpsBack ==
    [][\A r \in Runs :
          Executes(r) /\ NextOp(ctx[r]) = "]" /\ ctx[r].in_dead_loop = 0
             /\ ctx[r].loop_ref # <<>> =>
                LET p == ctx[r].loop_ref[Len(ctx[r].loop_ref)]
                IN  /\ pc'[r] = "running"
                    /\ ctx'[r].loop_ref = SubSeq(ctx[r].loop_ref, 1, Len(ctx[r].loop_ref) - 1)
                    /\ ctx'[r].eptr = p
                    /\ NextOp(ctx'[r]) = "["
                    /\ ctx'[r].goto = None]_vars

\* C22: in every reachable state the instruction pointer satisfies
\* 0 <= eptr <= program length, every instruction is fetched at an eptr in
\* [0, program length), and a run completes normally exactly when eptr equals
\* the program length.
C22_EptrWithinProgram ==
    [][\A r \in Runs :
          /\ ctx[r].eptr \in 0..n_instructions(ctx[r])
          /\ ctx'[r].eptr \in 0..n_instructions(ctx'[r])
          /\ Executes(r) => ctx[r].eptr \in 0..(n_instructions(ctx[r]) - 1)
          /\ CompletesNormally(r) => ctx[r].eptr = n_instructions(ctx[r])
          /\ pc[r] = "running" /\ ctx[r].eptr = n_instructions(ctx[r]) /\ pc'[r] # pc[r] =>
                CompletesNormally(r)]_vars

\* C23: executing "?" in mode 26 (jump left) or mode 27 (jump right) at an
\* eptr in [0, program length) sets the pending goto to eptr - d or eptr + d
\* with d the larger of the program length and the current cell value, so the
\* instruction pointer after that step always lies outside [0, program
\* length): below 0 for a jump left, at or above the program length for a
\* jump right.
C23_JumpLeavesProgram ==
    [][\A r \in Runs :
          Executes(r) /\ NextOp(ctx[r]) = "?" /\ ctx[r].in_dead_loop = 0
             /\ ctx[r].imode \in {26, 27}
             /\ ctx[r].eptr \in 0..(n_instructions(ctx[r]) - 1) =>
                /\ pc'[r] = "running"
                /\ LET d == Max(n_instructions(ctx[r]), mvalue(ctx[r]))
                       target == IF ctx[r].imode = 26 THEN ctx[r].eptr - d
                                 ELSE ctx[r].eptr + d
                   IN  /\ LastFrame(ctx'[r]).goto = <<target>>
                       /\ ctx'[r].eptr = target
                       /\ ctx[r].imode = 26 => ctx'[r].eptr < 0
                       /\ ctx[r].imode = 27 => ctx'[r].eptr >= n_instructions(ctx[r])]_vars

\* C24: every arithmetic mode (16 add, 17 sub, 18 mul, 19 div, 20 and, 21 or,
\* 22 not, 23 xor) executed with an I/O buffer that is not empty consumes
\* exactly one value from the front of the buffer: afterwards the buffer is
\* the buffer of before without its first byte, the other bytes in their
\* order.
C24_ALUConsumesOne ==
    [][\A r \in Runs :
          Executes(r) /\ NextOp(ctx[r]) = "?" /\ ctx[r].in_dead_loop = 0
             /\ ctx[r].imode \in 16..23 /\ ctx[r].icell # <<>> =>
                ctx'[r].icell = Tail(ctx[r].icell)]_vars

\* C25: mode 16 (add) stores into the current cell the larger of cell + q and
\* the byte ceiling 255, q being the value dequeued from the front of the I/O
\* buffer (0 when the buffer is empty), for every cell value and q in 0..255;
\* what it stores is never below 255.
C25_AddStoresMax ==
    [][\A r \in Runs :
          Executes(r) /\ NextOp(ctx[r]) = "?" /\ ctx[r].in_dead_loop = 0
             /\ ctx[r].imode = 16 /\ ctx[r].mptr \in 0..(WORKING_MEMORY_BYTES - 1)
             /\ mvalue(ctx[r]) \in 0..BYTE_MAX =>
                LET q == IF ctx[r].icell = <<>> THEN 0 ELSE Head(ctx[r].icell)
                IN  /\ q \in 0..BYTE_MAX
                    /\ pc'[r] = "running"
                    /\ ctx'[r].mptr = ctx[r].mptr
                    /\ mvalue(ctx'[r]) = Max(mvalue(ctx[r]) + q, BYTE_MAX)
                    /\ mvalue(ctx'[r]) >= BYTE_MAX
                    /\ ctx'[r].mcell = [ctx[r].mcell EXCEPT ![ctx[r].mptr] = mvalue(ctx'[r])]]_vars

\* mode 16 has added the 255 of the buffer to the 255 of the cell: 510
C25_Witness ==
    \E r \in Runs :
        /\ pc[r] = "running"
        /\ Len(ctx[r].stack) >= 2
        /\ LastFrame(ctx[r]).operator = "?"
        /\ LastFrame(ctx[r]).imode = 16
        /\ LET before == ctx[r].stack[Len(ctx[r].stack) - 1]
           IN  /\ before.mcell[before.mptr] = BYTE_MAX
               /\ before.icell = <<BYTE_MAX>>
        /\ mvalue(ctx[r]) = 2 * BYTE_MAX
        /\ ctx[r].icell = <<>>

\* the Context of a run of c alone after k instructions, the console and the
\* modem supplying creads and mreads
RECURSIVE Alone(_, _, _, _, _)
Alone(c, interp, creads, mreads, k) ==
    IF k = 0 THEN c
    ELSE LET console == ReadsPort(c, interp) /\ c.imode \in {1, 3} /\ creads # <<>>
             modem == ReadsPort(c, interp) /\ c.imode = 5 /\ mreads # <<>>
             ivalue == IF console THEN Head(creads)
                       ELSE IF modem THEN Head(mreads) ELSE <<>>
         IN  Alone(__next__(c, interp, ivalue).c, interp,
                   IF console THEN Tail(creads) ELSE creads,
                   IF modem THEN Tail(mreads) ELSE mreads, k - 1)

\* the instructions run r has executed, the faulting one included
Executed(r) ==
    Len(ctx[r].stack) + (IF pc[r] = "raised" \/ logged[r] # "" THEN 1 ELSE 0)

\* C26: when two runs are dispatched concurrently on the same Interpreter and
\* their steps interleave in any order, the Context of each run (memory,
\* buffer, pointers, loop stack, frames) evolves exactly as it would running
\* alone with the same inputs, and after both have finished the run counter
\* has grown by exactly the number of those runs that completed normally.
C26_ConcurrentRunsAreIsolated ==
    /\ \A r \in Runs :
          pc[r] # "idle" =>
             ctx[r] = Alone(reset(ctx[r].source), interpreter,
                            port_io[r].console_read, port_io[r].modem_read, Executed(r))
    /\ (\A r \in Runs : pc[r] \in {"returned", "raised"}) =>
          interpreter.run_counter =
             Cardinality({r \in Runs : pc[r] = "returned" /\ logged[r] = ""})

\* both runs are in flight and each has executed instructions that wrote its
\* memory: the first has counted its cell up to 2, the second has read "7"
C26_Witness ==
    /\ pc[1] = "running" /\ pc[2] = "running"
    /\ ctx[1].source = <<"+", "+", "[", "-", "]">>
    /\ ctx[2].source = <<"+", "=", "?", "+">>
    /\ Len(ctx[1].stack) = 2 /\ ctx[1].mcell[0] = 2
    /\ Len(ctx[2].stack) = 3 /\ ctx[2].mcell[0] = 7

\* the instructions op among the instructions a..b of source (counted from 1)
Count(source, op, a, b) == Cardinality({i \in a..b : source[i] = op})

\* the "[" at position q statically encloses position e: no "]" between them
\* closes it
Encloses(source, q, e) ==
    /\ q < e
    /\ source[q + 1] = "["
    /\ \A k \in (q + 2)..e :
          Count(source, "]", q + 2, k) <= Count(source, "[", q + 2, k)

\* the positions of the "[" that statically enclose position e
StaticLoops(source, e) == {q \in 0..(Len(source) - 1) : Encloses(source, q, e)}

\* every "]" of source closes a "[", and every "[" is closed
Balanced(source) ==
    /\ \A k \in 1..Len(source) : Count(source, "]", 1, k) <= Count(source, "[", 1, k)
    /\ Count(source, "]", 1, Len(source)) = Count(source, "[", 1, Len(source))

\* the run has executed "?" in mode 26 or 27
Jumped(c) ==
    \E i \in 1..Len(c.stack) :
        c.stack[i].operator = "?" /\ c.stack[i].imode \in {26, 27} /\ ~c.stack[i].noop

\* C27: for a bracket-balanced program that never executes the modes 26 and
\* 27, before each instruction the loop stack holds exactly the positions of
\* the "[" instructions that statically enclose eptr, outermost first (its
\* length is the static nesting depth), the dead-loop counter never exceeds the
\* length of the loop stack, and a run that completes normally ends with an
\* empty loop stack and a dead-loop counter of 0.
C27_LoopStackIsStaticNesting ==
    \A r \in Runs :
        pc[r] # "idle" /\ Balanced(ctx[r].source) /\ ~Jumped(ctx[r]) =>
           /\ ctx[r].eptr \in 0..n_instructions(ctx[r])
           /\ {ctx[r].loop_ref[i] : i \in DOMAIN ctx[r].loop_ref}
                 = StaticLoops(ctx[r].source, ctx[r].eptr)
           /\ \A i, j \in DOMAIN ctx[r].loop_ref : i < j => ctx[r].loop_ref[i] < ctx[r].loop_ref[j]
           /\ ctx[r].in_dead_loop \in 0..Len(ctx[r].loop_ref)
           /\ (pc[r] = "returned" /\ logged[r] = "") \/ ~Running(ctx[r]) =>
                 /\ ctx[r].loop_ref = <<>>
                 /\ ctx[r].in_dead_loop = 0

\* in the second pass of the outer loop the inner loop is entered with a cell
\* of 0: both "[" are on the loop stack, the inner one as a dead loop
C27_Witness ==
    /\ pc[1] = "running"
    /\ ctx[1].source = <<"+", "[", ">", "+", "+", "[", "-", "]", "<", "-", "]", "+">>
    /\ ctx[1].eptr = 6
    /\ ctx[1].loop_ref = <<1, 5>>
    /\ ctx[1].in_dead_loop = 1

\* C28: a faulting step is atomic. For every step that aborts the run (a "]"
\* without "[", an unknown I/O mode, an unknown task selector, or any error
\* raised inside a mode or task handler), the working memory, mptr, the I/O
\* buffer, imode, the loop stack and the dead-loop counter of the returned
\* Context equal their values before that step, eptr still points at the
\* faulting instruction, and no Frame was appended for it.
C28_FaultIsAtomic ==
    [][\A r \in Runs :
          Executes(r) /\ pc'[r] # "running" =>
             /\ ctx'[r].mcell = ctx[r].mcell
             /\ ctx'[r].mptr = ctx[r].mptr
             /\ ctx'[r].icell = ctx[r].icell
             /\ ctx'[r].imode = ctx[r].imode
             /\ ctx'[r].loop_ref = ctx[r].loop_ref
             /\ ctx'[r].in_dead_loop = ctx[r].in_dead_loop
             /\ ctx'[r].eptr = ctx[r].eptr
             /\ ctx'[r].stack = ctx[r].stack]_vars

====
